---- MODULE Spec2Model ----
(***************************************************************************)
(* LargeMultipartUploader (utils/runpod/upload_large_file) as a state      *)
(* machine: the upload() driver, the part tasks run by the thread pool,    *)
(* call_with_524_retry, complete_with_timeout_retry, and the object store  *)
(* the six requests are sent to.                                           *)
(*                                                                         *)
(* One step of the driver or of a part task is one request together with   *)
(* the handling of its response up to the next request (or the end of the  *)
(* function); a backoff sleep of a part task is a state of its own.        *)
(*                                                                         *)
(* Sizes are counted in MiB: every size constant of the program is a whole *)
(* number of MiB, and Python's integers do not overflow, while the model   *)
(* checker's are 32 bits wide.                                             *)
(***************************************************************************)
EXTENDS Integers, Sequences, FiniteSets, TLC

\* ------------------------------------------------------------- bounds
MaxRetries == 3
MaxWorkers == 2
MaxFileSize == 5
ModelPartSize == 2
MaxInvocations == 2

\* ------------------------------------------------------------ helpers
Max2(a, b) == IF a >= b THEN a ELSE b
Min2(a, b) == IF a <= b THEN a ELSE b

\* math.ceil(a / b) for a >= 0, b > 0
CeilDiv(a, b) == (a + b - 1) \div b

RECURSIVE Pow2(_)
Pow2(k) == IF k = 0 THEN 1 ELSE 2 * Pow2(k - 1)

SeqToSet(s) == {s[i] : i \in 1..Len(s)}

\* 1024**3 bytes
GiB == 1024

MIN_PART_SIZE_BYTES == 5
MAX_PART_SIZE_BYTES == 5 * 1024
MAX_PARTS == 10000
DEFAULT_PART_SIZE_BYTES == 50

\* Mutant: the default part size whatever the size of the file.
DefaultChunkSize(fs) == DEFAULT_PART_SIZE_BYTES

\* required = math.ceil(file_size / MAX_PARTS)
\* return max(DEFAULT_PART_SIZE_BYTES, MIN_PART_SIZE_BYTES, required)
compute_chunk_size(fs) ==
    Max2(DEFAULT_PART_SIZE_BYTES,
         Max2(MIN_PART_SIZE_BYTES, CeilDiv(fs, MAX_PARTS)))

\* Mutant: only whole GiB are counted.
CompletionTimeoutFloor(fs) == Max2(60, (fs \div GiB) * 5)

\* completion_timeout = max(60, int(math.ceil(file_gb) * 5))
CompletionTimeout(fs) == Max2(60, CeilDiv(fs, GiB) * 5)

\* ----------------------------------------------------------- responses
Retryable == {"E524", "ETimeout"}
CallResps == {"OK", "E524", "ETimeout", "E507", "EOther"}
CompleteResps == CallResps \cup {"ENoSuchUpload"}

\* An exception: its class, the request that raised it, and the attempt
\* (1-based, within the enclosing retry loop) whose request it answered.
Exc(kind, op, n) == [kind |-> kind, op |-> op, n |-> n]
NoExc == Exc("none", "none", 0)

is_insufficient_storage_error(exc) == exc.kind = "E507"
\* Mutant: no response is recognised as a 524.
Never524(exc) == FALSE
is_524_error(exc) == exc.kind = "E524"
is_no_such_upload_error(exc) == exc.kind = "ENoSuchUpload"
IsTimeoutError(exc) == exc.kind = "ETimeout"

NoObj == -1
NoUpload == 0
\* chunk_size is None: neither the command line nor the config file names one
NoChunk == -1

VARIABLES
    file_size, part_size, max_retries, max_workers,
    args_chunk_size, chunk_size, completion_timeout, invocations,
    pc, outcome, raised, upload_id, endedAt, parts, parts_sorted, seen,
    parts_completed, progress, progress_lock,
    queue, ppc, pattempt, ptmp, fut, part507, queuedAt507,
    petag, pbackoff, perr, yielded, tasks,
    retry, rec, completeArg, abortCalls, lastResp,
    srvSession, srvUploads, srvObj, srvParts, srvMerges

cfgVars == <<file_size, part_size, max_retries, max_workers, args_chunk_size,
             chunk_size, completion_timeout, invocations>>
drvVars == <<pc, outcome, raised, upload_id, endedAt, parts, parts_sorted,
             seen>>
cntVars == <<parts_completed, progress, progress_lock>>
poolVars == <<queue, tasks, ppc, pattempt, ptmp, petag, pbackoff, perr, fut,
              yielded, part507, queuedAt507>>
recVars == <<rec, completeArg>>
srvVars == <<srvSession, srvUploads, srvObj, srvParts, srvMerges>>
vars == <<cfgVars, drvVars, cntVars, poolVars, retry, recVars, abortCalls,
          lastResp, srvVars>>

total_parts == CeilDiv(file_size, part_size)
Parts == 1..total_parts

\* ------------------------------------------------ call_with_524_retry
\* The activation record of one call_with_524_retry: the loop variable, the
\* responses its invocations of func received, the backoff sleeps it took,
\* and how it ended.
NewFrame(op) ==
    [op |-> op, status |-> "running", attempt |-> 1, resps |-> <<>>,
     sleeps |-> <<>>, err |-> NoExc, result |-> 0]
NoFrame == [NewFrame("none") EXCEPT !.status = "idle"]

\* The frame a call site works on: the running one, or a fresh call.
CurFrame(op) == IF retry.status = "running" THEN retry ELSE NewFrame(op)

\* Mutant: the exponent counted from 0 (1s, 2s, ...).
BackoffFromZero(attempt) == Pow2(attempt - 1)

\* backoff = 2**attempt
Backoff(attempt) == Pow2(attempt)

\* Mutant: the loop gives up one attempt early.
IsLastAttemptEarly(attempt) == attempt >= max_retries - 1

\* attempt == self.max_retries
IsLastAttempt(attempt) == attempt = max_retries

\* One pass of the loop body: func() answered `kind` (with value val on OK).
Call524(f, kind, val) ==
    LET exc == Exc(kind, f.op, f.attempt)
        g == [f EXCEPT !.resps = Append(@, kind)]
    IN  IF kind = "OK"
        THEN [g EXCEPT !.status = "returned", !.result = val]
        ELSE IF is_524_error(exc) \/ IsTimeoutError(exc)
        THEN IF IsLastAttempt(f.attempt)
             THEN [g EXCEPT !.status = "raised", !.err = exc]
             ELSE [g EXCEPT !.sleeps = Append(@, Backoff(f.attempt)),
                            !.attempt = @ + 1]
        ELSE [g EXCEPT !.status = "raised", !.err = exc]

\* The latest response to a request of the driver.
Response(op, kind) == [op |-> op, kind |-> kind]

\* ------------------------------------------------------------- server
\* The object a merge leaves under the key: the whole file, or (a faulty
\* backend) a truncated one.
MergedSizes(fs) == {fs, fs - 1}
\* What is stored under the key before the upload: nothing, or an object
\* left by an earlier upload (of the same size or not).
InitialObjects(fs) == {NoObj, fs, fs + 1}
\* The integrity token the store computes for a part's bytes.
ETagOf(p) == 100 + p

Receipt(p, etag) == [PartNumber |-> p, ETag |-> etag]
NoReceipt == Receipt(0, 0)

Future(state, result, exception) ==
    [state |-> state, result |-> result, exception |-> exception]

\* The activation record of complete_with_timeout_retry: its locals, the
\* response to its latest complete_multipart_upload call (resp), the sleep
\* it took before the latest head_object check (slept, 0 for none), and the
\* outcome of that check (head).
NewRec(initial_timeout) ==
    [status |-> "running", attempt |-> 1, timeout |-> initial_timeout,
     last_exc |-> NoExc, resp |-> "none", slept |-> 0, head |-> "none",
     timeouts |-> <<>>, completeCalls |-> 0]
NoRec == [NewRec(0) EXCEPT !.status = "idle", !.attempt = 0]

\* ---------------------------------------------------------------- Init
Init ==
    /\ file_size \in 1..MaxFileSize
    /\ part_size = ModelPartSize
    /\ max_retries \in 1..MaxRetries
    /\ max_workers \in 1..MaxWorkers
    /\ args_chunk_size = part_size
    /\ chunk_size = part_size
    /\ completion_timeout = 0
    /\ invocations = 1
    /\ pc = "begin"
    /\ outcome = "none"
    /\ raised = NoExc
    /\ upload_id = NoUpload
    /\ endedAt = "none"
    /\ parts = <<>>
    /\ parts_sorted = <<>>
    /\ seen = {}
    /\ parts_completed = 0
    /\ progress = 0
    /\ progress_lock = 0
    /\ queue = <<>>
    /\ tasks = <<>>
    /\ ppc = [p \in 1..CeilDiv(file_size, part_size) |-> "new"]
    /\ pattempt = [p \in 1..CeilDiv(file_size, part_size) |-> 0]
    /\ ptmp = [p \in 1..CeilDiv(file_size, part_size) |-> 0]
    /\ petag = [p \in 1..CeilDiv(file_size, part_size) |-> 0]
    /\ pbackoff = [p \in 1..CeilDiv(file_size, part_size) |-> 0]
    /\ perr = [p \in 1..CeilDiv(file_size, part_size) |-> "none"]
    /\ fut = [p \in 1..CeilDiv(file_size, part_size) |->
                Future("NONE", NoReceipt, NoExc)]
    /\ yielded = {}
    /\ part507 = {}
    /\ queuedAt507 = {}
    /\ retry = NoFrame
    /\ rec = NoRec
    /\ completeArg = <<>>
    /\ abortCalls = 0
    /\ lastResp = Response("none", "none")
    /\ srvSession = "none"
    /\ srvUploads = 0
    /\ srvObj \in InitialObjects(file_size)
    /\ srvParts = {}
    /\ srvMerges = 0

\* An uploader constructed for a file on either side of the 12 GiB mark of
\* the completion timeout, with parts of the largest size.
BigFileSizes == {MAX_PART_SIZE_BYTES, 12 * GiB, 12 * GiB + 1, 13 * GiB + 1}

InitBigFile ==
    /\ file_size \in BigFileSizes
    /\ part_size = MAX_PART_SIZE_BYTES
    /\ max_retries \in {1, 2}
    /\ max_workers = 2
    /\ args_chunk_size = part_size
    /\ chunk_size = part_size
    /\ completion_timeout = 0
    /\ invocations = 1
    /\ pc = "begin"
    /\ outcome = "none"
    /\ raised = NoExc
    /\ upload_id = NoUpload
    /\ endedAt = "none"
    /\ parts = <<>>
    /\ parts_sorted = <<>>
    /\ seen = {}
    /\ parts_completed = 0
    /\ progress = 0
    /\ progress_lock = 0
    /\ queue = <<>>
    /\ tasks = <<>>
    /\ ppc = [p \in 1..CeilDiv(file_size, part_size) |-> "new"]
    /\ pattempt = [p \in 1..CeilDiv(file_size, part_size) |-> 0]
    /\ ptmp = [p \in 1..CeilDiv(file_size, part_size) |-> 0]
    /\ petag = [p \in 1..CeilDiv(file_size, part_size) |-> 0]
    /\ pbackoff = [p \in 1..CeilDiv(file_size, part_size) |-> 0]
    /\ perr = [p \in 1..CeilDiv(file_size, part_size) |-> "none"]
    /\ fut = [p \in 1..CeilDiv(file_size, part_size) |->
                Future("NONE", NoReceipt, NoExc)]
    /\ yielded = {}
    /\ part507 = {}
    /\ queuedAt507 = {}
    /\ retry = NoFrame
    /\ rec = NoRec
    /\ completeArg = <<>>
    /\ abortCalls = 0
    /\ lastResp = Response("none", "none")
    /\ srvSession = "none"
    /\ srvUploads = 0
    /\ srvObj = NoObj
    /\ srvParts = {}
    /\ srvMerges = 0

\* An uploader constructed for a two-part file, on which upload() is
\* called more than once.
InitReuse ==
    /\ file_size = ModelPartSize + 1
    /\ part_size = ModelPartSize
    /\ max_retries = 2
    /\ max_workers = 2
    /\ args_chunk_size = part_size
    /\ chunk_size = part_size
    /\ completion_timeout = 0
    /\ invocations = 1
    /\ pc = "begin"
    /\ outcome = "none"
    /\ raised = NoExc
    /\ upload_id = NoUpload
    /\ endedAt = "none"
    /\ parts = <<>>
    /\ parts_sorted = <<>>
    /\ seen = {}
    /\ parts_completed = 0
    /\ progress = 0
    /\ progress_lock = 0
    /\ queue = <<>>
    /\ tasks = <<>>
    /\ ppc = [p \in 1..CeilDiv(file_size, part_size) |-> "new"]
    /\ pattempt = [p \in 1..CeilDiv(file_size, part_size) |-> 0]
    /\ ptmp = [p \in 1..CeilDiv(file_size, part_size) |-> 0]
    /\ petag = [p \in 1..CeilDiv(file_size, part_size) |-> 0]
    /\ pbackoff = [p \in 1..CeilDiv(file_size, part_size) |-> 0]
    /\ perr = [p \in 1..CeilDiv(file_size, part_size) |-> "none"]
    /\ fut = [p \in 1..CeilDiv(file_size, part_size) |->
                Future("NONE", NoReceipt, NoExc)]
    /\ yielded = {}
    /\ part507 = {}
    /\ queuedAt507 = {}
    /\ retry = NoFrame
    /\ rec = NoRec
    /\ completeArg = <<>>
    /\ abortCalls = 0
    /\ lastResp = Response("none", "none")
    /\ srvSession = "none"
    /\ srvUploads = 0
    /\ srvObj = NoObj
    /\ srvParts = {}
    /\ srvMerges = 0

\* ------------------------------------------------------------ __main__
\* The files and the arguments the script is run with: file sizes around
\* the part-size limits, the part-count limit and the 12 GiB mark of the
\* completion timeout; chunk sizes around the two part-size limits.
PlanFileSizes ==
    {0, 1, 4, 5, 6, 49, 50, 51, 100, 120, GiB, GiB + 1,
     MAX_PARTS * MIN_PART_SIZE_BYTES, MAX_PARTS * MIN_PART_SIZE_BYTES + 1,
     MAX_PARTS * DEFAULT_PART_SIZE_BYTES,
     MAX_PARTS * DEFAULT_PART_SIZE_BYTES + 1,
     12 * GiB - 1, 12 * GiB, 12 * GiB + 1, 13 * GiB, 13 * GiB + 1,
     MAX_PARTS * MAX_PART_SIZE_BYTES, MAX_PARTS * MAX_PART_SIZE_BYTES + 1}
PlanChunkSizes ==
    {NoChunk, 0, MIN_PART_SIZE_BYTES - 1, MIN_PART_SIZE_BYTES,
     MIN_PART_SIZE_BYTES + 1, DEFAULT_PART_SIZE_BYTES,
     MAX_PART_SIZE_BYTES - 1, MAX_PART_SIZE_BYTES, MAX_PART_SIZE_BYTES + 1}
\* <<max_retries, workers>>
PlanPoolArgs == {<<0, 1>>, <<1, 0>>, <<1, 1>>, <<2, 1>>}

\* The script has read its arguments and the size of the file; no uploader
\* exists yet.
InitPlan ==
    /\ file_size \in PlanFileSizes
    /\ args_chunk_size \in PlanChunkSizes
    /\ chunk_size = args_chunk_size
    /\ \E a \in PlanPoolArgs : max_retries = a[1] /\ max_workers = a[2]
    /\ part_size = 0
    /\ completion_timeout = 0
    /\ invocations = 1
    /\ pc = "main"
    /\ outcome = "none"
    /\ raised = NoExc
    /\ upload_id = NoUpload
    /\ endedAt = "none"
    /\ parts = <<>>
    /\ parts_sorted = <<>>
    /\ seen = {}
    /\ parts_completed = 0
    /\ progress = 0
    /\ progress_lock = 0
    /\ queue = <<>>
    /\ tasks = <<>>
    /\ ppc = <<>>
    /\ pattempt = <<>>
    /\ ptmp = <<>>
    /\ petag = <<>>
    /\ pbackoff = <<>>
    /\ perr = <<>>
    /\ fut = <<>>
    /\ yielded = {}
    /\ part507 = {}
    /\ queuedAt507 = {}
    /\ retry = NoFrame
    /\ rec = NoRec
    /\ completeArg = <<>>
    /\ abortCalls = 0
    /\ lastResp = Response("none", "none")
    /\ srvSession = "none"
    /\ srvUploads = 0
    /\ srvObj = NoObj
    /\ srvParts = {}
    /\ srvMerges = 0

\* Mutant: a plan of exactly MAX_PARTS parts is refused as well.
PartsAtLeastMax(n) == n >= MAX_PARTS

\* if total_parts > MAX_PARTS: raise ValueError(...)
TooManyParts(n) == n > MAX_PARTS

\* The checks of __main__ on a chunk size cs, in the order of the code:
\* the ValueError raised, or "none".
PlanError(fs, cs, retries, workers) ==
    IF cs < MIN_PART_SIZE_BYTES THEN "ValueErrorChunkTooSmall"
    ELSE IF cs > MAX_PART_SIZE_BYTES THEN "ValueErrorChunkTooLarge"
    ELSE IF TooManyParts(CeilDiv(fs, cs)) THEN "ValueErrorTooManyParts"
    ELSE IF retries < 1 THEN "ValueErrorMaxRetries"
    ELSE IF workers < 1 THEN "ValueErrorWorkers"
    ELSE "none"

\* __main__ from the size of the file to uploader.upload(): the checks,
\* then LargeMultipartUploader(part_size=chunk_size, ...).
MainPlan ==
    /\ pc = "main"
    /\ IF file_size <= 0
       THEN /\ pc' = "done"
            /\ outcome' = "raised"
            /\ raised' = Exc("ValueErrorEmptyFile", "main", 0)
            /\ endedAt' = pc
            /\ UNCHANGED <<chunk_size, part_size>>
       ELSE LET cs == IF chunk_size = NoChunk
                      THEN compute_chunk_size(file_size)
                      ELSE chunk_size
                err == PlanError(file_size, cs, max_retries, max_workers)
            IN  /\ chunk_size' = cs
                /\ IF err # "none"
                   THEN /\ pc' = "done"
                        /\ outcome' = "raised"
                        /\ raised' = Exc(err, "main", 0)
                        /\ endedAt' = pc
                        /\ UNCHANGED part_size
                   ELSE /\ part_size' = cs
                        /\ pc' = "begin"
                        /\ UNCHANGED <<outcome, raised, endedAt>>
    /\ UNCHANGED <<file_size, max_retries, max_workers, args_chunk_size,
                   completion_timeout, invocations, upload_id, parts, parts_sorted, seen,
                   cntVars, poolVars, retry, recVars, abortCalls, lastResp,
                   srvVars>>

\* ------------------------------------------------------------ upload()
\* Mutant: the except clause aborts the session and forgets its id.
HandleFailureAbort(exc) ==
    /\ pc' = "done"
    /\ outcome' = "raised"
    /\ raised' = exc
    /\ endedAt' = pc
    /\ upload_id' = NoUpload
    /\ abortCalls' = abortCalls + 1

\* except Exception as exc: log, leave the session open, re-raise.
HandleFailure(exc) ==
    /\ pc' = "done"
    /\ outcome' = "raised"
    /\ raised' = exc
    /\ endedAt' = pc
    /\ upload_id' = upload_id
    /\ abortCalls' = abortCalls

\* upload() up to the first request: file_size, total_parts, file_gb and
\* completion_timeout.
BeginUpload ==
    /\ pc = "begin"
    /\ completion_timeout' = CompletionTimeout(file_size)
    /\ pc' = "create"
    /\ UNCHANGED <<file_size, part_size, max_retries, max_workers,
                   args_chunk_size, chunk_size, invocations, outcome, raised,
                   upload_id, endedAt, parts, parts_sorted,
                   seen, cntVars, poolVars, retry, recVars, abortCalls,
                   lastResp, srvVars>>

\* resp = self.call_with_524_retry("create_multipart_upload", ...);
\* self.upload_id = resp["UploadId"].  A failure here is outside the try.
CreateStep ==
    /\ pc = "create"
    /\ \E kind \in CallResps :
         LET f == Call524(CurFrame("CreateMultipartUpload"), kind,
                          srvUploads + 1)
         IN  /\ retry' = f
             /\ lastResp' = Response("CreateMultipartUpload", kind)
             /\ IF kind = "OK"
                THEN srvSession' = "open" /\ srvUploads' = srvUploads + 1
                ELSE UNCHANGED <<srvSession, srvUploads>>
             /\ CASE f.status = "returned" ->
                      /\ upload_id' = f.result
                      /\ pc' = "submit"
                      /\ UNCHANGED <<outcome, raised, endedAt>>
                  [] f.status = "raised" ->
                      /\ pc' = "done"
                      /\ outcome' = "raised"
                      /\ raised' = f.err
                      /\ endedAt' = pc
                      /\ UNCHANGED upload_id
                  [] OTHER ->
                      UNCHANGED <<pc, outcome, raised, upload_id, endedAt>>
    /\ UNCHANGED <<cfgVars, parts, parts_sorted, seen, cntVars, poolVars,
                   recVars,
                   abortCalls, srvObj, srvParts, srvMerges>>

\* offset = (part_num - 1) * self.part_size
PartOffset(part_num) == (part_num - 1) * part_size
\* Mutant: every part is read at the full part size.
FullChunkSize(part_num) == part_size

\* chunk_size = min(self.part_size, file_size - offset)
ChunkSize(part_num) == Min2(part_size, file_size - PartOffset(part_num))

PartTask(part_num) ==
    [part_number |-> part_num, offset |-> PartOffset(part_num),
     bytes_to_read |-> ChunkSize(part_num)]

\* for part_num in range(1, total_parts + 1): executor.submit(upload_part, ...)
\* The pool's work queue is first in, first out.
SubmitParts ==
    /\ pc = "submit"
    /\ tasks' = [p \in Parts |-> PartTask(p)]
    /\ queue' = [p \in Parts |-> p]
    /\ ppc' = [p \in Parts |-> "queued"]
    /\ fut' = [p \in Parts |-> Future("PENDING", NoReceipt, NoExc)]
    /\ parts' = <<>>
    /\ retry' = NoFrame
    /\ pc' = "collect"
    /\ UNCHANGED <<cfgVars, outcome, raised, upload_id, endedAt, parts_sorted,
                   seen,
                   cntVars, pattempt, ptmp, petag, pbackoff, perr, yielded, part507,
                   queuedAt507, recVars, abortCalls, lastResp,
                   srvVars>>

\* ------------------------------------------- the pool and upload_part
\* A part task is on a worker thread from the moment it is taken off the
\* queue until upload_part returns or raises.
Running(p) == ppc[p] \in {"req", "sleep", "load", "store"}
InFlight == {p \in Parts : Running(p)}

\* Mutant: the pool starts a thread for every queued task.
UnboundedPool == TRUE

\* ThreadPoolExecutor(max_workers=self.max_workers): a thread is free.
WorkerAvailable == Cardinality(InFlight) < max_workers

\* A free worker thread takes the oldest queued task.  The pool has no
\* cancellation: a queued task is taken whatever happened to the others,
\* also while the driver is leaving the with block.
StartPart ==
    /\ queue # <<>>
    /\ WorkerAvailable
    /\ LET p == Head(queue)
       IN  /\ queue' = Tail(queue)
           /\ IF upload_id = NoUpload
              THEN /\ ppc' = [ppc EXCEPT ![p] = "err"]
                   /\ fut' = [fut EXCEPT ![p] =
                          Future("FINISHED", NoReceipt,
                                 Exc("RuntimeErrorNoUploadId", "UploadPart", 0))]
                   /\ UNCHANGED pattempt
              ELSE /\ ppc' = [ppc EXCEPT ![p] = "req"]
                   /\ fut' = [fut EXCEPT ![p].state = "RUNNING"]
                   /\ pattempt' = [pattempt EXCEPT ![p] = 1]
    /\ UNCHANGED <<cfgVars, drvVars, cntVars, tasks, ptmp, petag, pbackoff, perr,
                   yielded, part507, queuedAt507, retry,
                   recVars, abortCalls, lastResp, srvVars>>

\* Mutant: no attempt is the last one.
PartNeverLast(attempt) == FALSE

\* upload_part: if attempt == self.max_retries: raise
PartLastAttempt(attempt) == attempt = max_retries

\* upload_part: backoff = 2**attempt
PartBackoff(attempt) == Pow2(attempt)

\* Mutant: every error outside the timeout/overload class is fatal.
PartFatalUnlessRetryable(exc) == exc.kind \notin Retryable

\* Mutant: a 507 response is handled like any other failed attempt.
PartNeverFatal(exc) == FALSE

\* if self.is_insufficient_storage_error(exc): raise RuntimeError(...)
PartFatal(exc) == is_insufficient_storage_error(exc)

\* One attempt of upload_part: read the bytes, send UploadPart, and handle
\* the response up to the backoff sleep, the progress lock or the raise.
UploadPartAttempt(p) ==
    /\ ppc[p] = "req"
    /\ \E kind \in CallResps :
         LET exc == Exc(kind, "UploadPart", pattempt[p])
         IN  /\ kind = "OK" => srvSession = "open"
             /\ CASE kind = "OK" ->
                      /\ srvParts' = srvParts \cup {Receipt(p, ETagOf(p))}
                      /\ petag' = [petag EXCEPT ![p] = ETagOf(p)]
                      /\ ppc' = [ppc EXCEPT ![p] = "load"]
                      /\ UNCHANGED <<fut, pattempt, pbackoff, perr, part507,
                                     queuedAt507>>
                  [] kind # "OK" /\ PartFatal(exc) ->
                      /\ ppc' = [ppc EXCEPT ![p] = "err"]
                      /\ fut' = [fut EXCEPT ![p] =
                             Future("FINISHED", NoReceipt,
                                    Exc("RuntimeError507", "UploadPart",
                                        pattempt[p]))]
                      /\ pattempt' = [pattempt EXCEPT ![p] = 0]
                      /\ part507' = IF kind = "E507" THEN part507 \cup {p}
                                    ELSE part507
                      /\ queuedAt507' = IF kind = "E507"
                                        THEN queuedAt507 \cup SeqToSet(queue)
                                        ELSE queuedAt507
                      /\ UNCHANGED <<srvParts, petag, pbackoff, perr>>
                  [] OTHER ->
                      /\ part507' = IF kind = "E507" THEN part507 \cup {p}
                                    ELSE part507
                      /\ queuedAt507' = IF kind = "E507"
                                        THEN queuedAt507 \cup SeqToSet(queue)
                                        ELSE queuedAt507
                      /\ IF PartLastAttempt(pattempt[p])
                         THEN /\ ppc' = [ppc EXCEPT ![p] = "err"]
                              /\ fut' = [fut EXCEPT ![p] =
                                     Future("FINISHED", NoReceipt, exc)]
                              /\ pattempt' = [pattempt EXCEPT ![p] = 0]
                              /\ UNCHANGED <<pbackoff, perr>>
                         ELSE /\ ppc' = [ppc EXCEPT ![p] = "sleep"]
                              /\ perr' = [perr EXCEPT ![p] = kind]
                              /\ pbackoff' = [pbackoff EXCEPT ![p] =
                                     PartBackoff(pattempt[p])]
                              /\ UNCHANGED <<fut, pattempt>>
                      /\ UNCHANGED <<srvParts, petag>>
    /\ UNCHANGED <<cfgVars, drvVars, cntVars, queue, tasks, ptmp, yielded,
                   retry, recVars, abortCalls, lastResp, srvSession,
                   srvUploads, srvObj, srvMerges>>

\* time.sleep(backoff) is over: the next pass of the loop.
PartWake(p) ==
    /\ ppc[p] = "sleep"
    /\ ppc' = [ppc EXCEPT ![p] = "req"]
    /\ pattempt' = [pattempt EXCEPT ![p] = @ + 1]
    /\ pbackoff' = [pbackoff EXCEPT ![p] = 0]
    /\ perr' = [perr EXCEPT ![p] = "none"]
    /\ UNCHANGED <<cfgVars, drvVars, cntVars, queue, tasks, ptmp, petag, fut,
                   yielded, part507, queuedAt507, retry,
                   recVars, abortCalls, lastResp, srvVars>>

\* Mutant: the receipt carries the part number only.
PartResultNoETag(part_number, etag) == Receipt(part_number, 0)

\* return {"PartNumber": part_number, "ETag": etag}
PartResult(part_number, etag) == Receipt(part_number, etag)

\* Mutant: the counter is updated without taking the lock.
LockIgnored(p) == TRUE

\* with self.progress_lock: the lock is free.
LockFree(p) == progress_lock = 0

\* with self.progress_lock: ... self.parts_completed += 1 reads the counter
LoadCounter(p) ==
    /\ ppc[p] = "load"
    /\ LockFree(p)
    /\ progress_lock' = p
    /\ ptmp' = [ptmp EXCEPT ![p] = parts_completed]
    /\ ppc' = [ppc EXCEPT ![p] = "store"]
    /\ UNCHANGED <<cfgVars, drvVars, parts_completed, progress, queue, tasks,
                   pattempt, petag, pbackoff, perr, fut, yielded, part507,
                   queuedAt507, retry, recVars, abortCalls,
                   lastResp, srvVars>>

\* ... and writes it back, computes progress, releases the lock; then
\* return {"PartNumber": part_number, "ETag": etag}
StoreCounter(p) ==
    /\ ppc[p] = "store"
    /\ parts_completed' = ptmp[p] + 1
    /\ progress' = (100 * (ptmp[p] + 1)) \div total_parts
    /\ progress_lock' = 0
    /\ ppc' = [ppc EXCEPT ![p] = "ok"]
    /\ fut' = [fut EXCEPT ![p] =
                  Future("FINISHED", PartResult(p, petag[p]), NoExc)]
    /\ pattempt' = [pattempt EXCEPT ![p] = 0]
    /\ ptmp' = [ptmp EXCEPT ![p] = 0]
    /\ UNCHANGED <<cfgVars, drvVars, queue, tasks, petag, pbackoff, perr, yielded,
                   part507, queuedAt507, retry, recVars,
                   abortCalls, lastResp, srvVars>>

\* Mutant: the loop ends with the first future that finished.
AnyCollected(done) == done # {}

\* as_completed(futures) is exhausted: every future has been yielded.
AllCollected(done) == done = Parts

\* for fut in as_completed(futures): part = fut.result(); parts.append(part)
\* A finished future is yielded once, in no fixed order among the finished
\* ones.  result() re-raises the task's exception, which leaves the with
\* block; after the last future the driver goes on to list_parts.
Collect(p) ==
    /\ pc = "collect"
    /\ p \notin yielded
    /\ fut[p].state = "FINISHED"
    /\ yielded' = yielded \cup {p}
    /\ IF fut[p].exception = NoExc
       THEN /\ parts' = Append(parts, fut[p].result)
            /\ pc' = IF AllCollected(yielded') THEN "list" ELSE "collect"
            /\ UNCHANGED raised
       ELSE /\ raised' = fut[p].exception
            /\ pc' = "drain"
            /\ UNCHANGED parts
    /\ UNCHANGED <<cfgVars, outcome, upload_id, endedAt, parts_sorted, seen,
                   cntVars,
                   queue,
                   tasks, ppc, pattempt, ptmp, petag, pbackoff, perr, fut, part507,
                   queuedAt507, retry, recVars, abortCalls,
                   lastResp, srvVars>>

\* ThreadPoolExecutor.__exit__: shutdown(wait=True) returns once the queue
\* is empty and every worker is idle; then the except clause of upload().
Drain ==
    /\ pc = "drain"
    /\ queue = <<>>
    /\ InFlight = {}
    /\ HandleFailure(raised)
    /\ UNCHANGED <<cfgVars, parts, parts_sorted, seen, cntVars, poolVars, retry,
                   recVars, lastResp, srvVars>>

\* ------------------------------------------------- list_parts and sort
\* What a ListParts round reports: the parts the store recorded, or (a
\* faulty backend) all of them but one.
Listings == {S \in SUBSET srvParts : Cardinality(S) >= Cardinality(srvParts) - 1}

\* Mutant: the receipts are passed on in the order they were collected.
UnsortedParts(s) == s

RECURSIVE InsertByPartNumber(_, _)
InsertByPartNumber(x, s) ==
    IF s = <<>> THEN <<x>>
    ELSE IF x.PartNumber < Head(s).PartNumber THEN <<x>> \o s
    ELSE <<Head(s)>> \o InsertByPartNumber(x, Tail(s))

\* sorted(parts, key=lambda x: x["PartNumber"]) (stable)
RECURSIVE SortedByPartNumber(_)
SortedByPartNumber(s) ==
    IF s = <<>> THEN <<>>
    ELSE InsertByPartNumber(s[Len(s)],
                            SortedByPartNumber(SubSeq(s, 1, Len(s) - 1)))

\* Mutant: only a listing with too many parts is refused.
PartCountExceeds(listed, expected) == listed > expected

\* if len(seen) != total_parts: raise RuntimeError(...)
PartCountDiffers(listed, expected) == listed # expected

\* seen = self.call_with_524_retry("list_parts", fetch_parts); the count
\* check; parts_sorted = sorted(...); entry of complete_with_timeout_retry.
ListStep ==
    /\ pc = "list"
    /\ \E kind \in CallResps, listing \in Listings :
         LET f == Call524(CurFrame("ListParts"), kind, listing)
         IN  /\ retry' = f
             /\ lastResp' = Response("ListParts", kind)
             /\ seen' = IF f.status = "returned" THEN f.result ELSE seen
             /\ CASE f.status = "returned"
                      /\ PartCountDiffers(Cardinality(f.result), total_parts) ->
                      /\ HandleFailure(Exc("RuntimeErrorPartCount", "upload", 0))
                      /\ UNCHANGED <<parts_sorted, rec>>
                  [] f.status = "returned"
                      /\ ~PartCountDiffers(Cardinality(f.result), total_parts) ->
                      /\ parts_sorted' = SortedByPartNumber(parts)
                      /\ IF upload_id = NoUpload
                         THEN /\ HandleFailure(Exc("RuntimeErrorNoUploadId",
                                                   "complete", 0))
                              /\ UNCHANGED rec
                         ELSE /\ rec' = NewRec(completion_timeout)
                              /\ pc' = "complete"
                              /\ UNCHANGED <<outcome, raised, upload_id,
                                             endedAt, abortCalls>>
                  [] f.status = "raised" ->
                      /\ HandleFailure(f.err)
                      /\ UNCHANGED <<parts_sorted, rec>>
                  [] OTHER ->
                      UNCHANGED <<pc, outcome, raised, upload_id, endedAt,
                                  abortCalls, parts_sorted, rec>>
    /\ UNCHANGED <<cfgVars, parts, cntVars, poolVars, completeArg, srvVars>>

\* ------------------------------------------ complete_with_timeout_retry
\* What a CompleteMultipartUpload request does at the store when the client
\* does not get a success response: nothing, the merge (the response was
\* lost), or a merge that finishes later.
CompleteEffects(kind) ==
    IF kind = "OK" THEN {"merged"}
    ELSE IF kind \in {"E507", "ENoSuchUpload"} THEN {"none"}
    ELSE {"none", "merged", "pending"}

\* Mutant: a timed-out call is treated like a missing session.
FlagOnTimeout(exc) == IsTimeoutError(exc) \/ is_no_such_upload_error(exc)

\* except (ReadTimeoutError, ConnectTimeoutError): no_such_upload = False
\* except (ClientError, BotoCoreError): no_such_upload = is_no_such_upload_error(exc)
NoSuchUploadFlag(exc) ==
    IF IsTimeoutError(exc) THEN FALSE ELSE is_no_such_upload_error(exc)

\* Mutant: the reconciler never gives up.
RecNeverLast(attempt) == FALSE

\* complete_with_timeout_retry: if attempt == self.max_retries: raise
RecLastAttempt(attempt) == attempt = max_retries

\* Mutant: the sleep is taken whatever the error.
AlwaysSleepBeforeHead(no_such_upload, timeout) == timeout

\* if no_such_upload: check at once; else: time.sleep(timeout)
SleepBeforeHead(no_such_upload, timeout) ==
    IF no_such_upload THEN 0 ELSE timeout

\* One client.complete_multipart_upload call and its except clauses, up to
\* the head_object check.
CompleteStep ==
    /\ pc = "complete"
    /\ \E kind \in CompleteResps :
         \E eff \in CompleteEffects(kind), size \in MergedSizes(file_size) :
         LET exc == Exc(kind, "CompleteMultipartUpload", rec.attempt)
             r == [rec EXCEPT !.completeCalls = @ + 1,
                              !.timeouts = Append(@, rec.timeout),
                              !.resp = kind,
                              !.head = "none",
                              !.slept = 0]
         IN  /\ kind = "ENoSuchUpload" => srvSession = "merged"
             /\ kind = "OK" => srvSession \in {"open", "pending"}
             /\ srvSession = "merged" => eff = "none"
             /\ eff # "merged" => size = file_size
             /\ lastResp' = Response("CompleteMultipartUpload", kind)
             /\ completeArg' = parts_sorted
             /\ retry' = NoFrame
             /\ CASE eff = "merged" ->
                      /\ srvSession' = "merged"
                      /\ srvObj' = size
                      /\ srvMerges' = srvMerges + 1
                  [] eff = "pending" ->
                      /\ srvSession' = "pending"
                      /\ UNCHANGED <<srvObj, srvMerges>>
                  [] OTHER -> UNCHANGED <<srvSession, srvObj, srvMerges>>
             /\ IF kind = "OK"
                THEN /\ rec' = [r EXCEPT !.status = "returned"]
                     /\ pc' = "fhead"
                ELSE /\ rec' = [r EXCEPT
                            !.last_exc = exc,
                            !.slept = SleepBeforeHead(NoSuchUploadFlag(exc),
                                                      rec.timeout)]
                     /\ pc' = "chead"
    /\ UNCHANGED <<cfgVars, outcome, raised, upload_id, endedAt, parts,
                   parts_sorted, seen, cntVars, poolVars, abortCalls,
                   srvUploads,
                   srvParts>>

\* A merge the store was still working on finishes.
ServerMerge ==
    /\ srvSession = "pending"
    /\ \E size \in MergedSizes(file_size) : srvObj' = size
    /\ srvSession' = "merged"
    /\ srvMerges' = srvMerges + 1
    /\ UNCHANGED <<cfgVars, drvVars, cntVars, poolVars, retry, recVars,
                   abortCalls, lastResp, srvUploads, srvParts>>

\* HeadObject answers OK only when an object is stored under the key.
HeadResps == IF srvObj = NoObj THEN CallResps \ {"OK"} ELSE CallResps

\* Mutants of the size comparison.
SizeNeverMatches(uploaded_size, expected_size) == FALSE
SizeGreater(uploaded_size, expected_size) == uploaded_size > expected_size
SizeAtLeast(uploaded_size, expected_size) == uploaded_size >= expected_size

\* uploaded_size == expected_size
SizeMatches(uploaded_size, expected_size) == uploaded_size = expected_size

\* Mutant: the next attempt keeps the timeout of this one.
SameTimeout(timeout) == timeout

\* timeout *= 2
NextTimeout(timeout) == timeout * 2

\* Mutant: exhaustion is reported by the generic error.
ExhaustedGeneric(last_exc) == Exc("RuntimeErrorExceeded", "complete", 0)

\* raise (last_exc if last_exc else RuntimeError("Exceeded max_retries ..."))
ExhaustedError(last_exc) ==
    IF last_exc # NoExc THEN last_exc
    ELSE Exc("RuntimeErrorExceeded", "complete", 0)

\* Mutant: the loop goes on to its end without the head_object check.
RecNoHeadCheck ==
    /\ pc = "chead"
    /\ IF RecLastAttempt(rec.attempt)
       THEN /\ rec' = [rec EXCEPT !.status = "raised"]
            /\ HandleFailure(ExhaustedError(rec.last_exc))
       ELSE /\ rec' = [rec EXCEPT !.timeout = NextTimeout(@),
                                  !.attempt = @ + 1]
            /\ pc' = "complete"
            /\ UNCHANGED <<outcome, raised, upload_id, endedAt, abortCalls>>
    /\ UNCHANGED <<cfgVars, parts, parts_sorted, seen, cntVars, poolVars,
                   retry, lastResp, completeArg, srvVars>>

\* The head_object check of one attempt (one request of its
\* call_with_524_retry) and, once that call has ended, the rest of the loop
\* body: return, raise last_exc, or double the timeout and go round again.
RecHeadStep ==
    /\ pc = "chead"
    /\ \E kind \in HeadResps :
         LET f == Call524(CurFrame("HeadObject"), kind, srvObj)
             matched == f.status = "returned" /\ SizeMatches(f.result, file_size)
         IN  /\ retry' = f
             /\ lastResp' = Response("HeadObject", kind)
             /\ CASE f.status = "running" ->
                      UNCHANGED <<pc, outcome, raised, upload_id, endedAt,
                                  abortCalls, rec>>
                  [] f.status # "running" /\ matched ->
                      /\ rec' = [rec EXCEPT !.status = "returned",
                                            !.head = "match"]
                      /\ pc' = "fhead"
                      /\ UNCHANGED <<outcome, raised, upload_id, endedAt,
                                     abortCalls>>
                  [] OTHER ->
                      LET h == IF f.status = "returned" THEN "mismatch"
                               ELSE "error"
                      IN  IF RecLastAttempt(rec.attempt)
                          THEN /\ rec' = [rec EXCEPT !.status = "raised",
                                                     !.head = h]
                               /\ HandleFailure(ExhaustedError(rec.last_exc))
                          ELSE /\ rec' = [rec EXCEPT
                                          !.timeout = NextTimeout(@),
                                          !.attempt = @ + 1,
                                          !.head = h]
                               /\ pc' = "complete"
                               /\ UNCHANGED <<outcome, raised, upload_id,
                                              endedAt, abortCalls>>
    /\ UNCHANGED <<cfgVars, parts, parts_sorted, seen, cntVars, poolVars,
                   completeArg, srvVars>>

\* ------------------------------------------------- final verification
\* head = self.call_with_524_retry("head_object", ...); the size check.
\* The reconciler has returned: its activation record is gone.
FinalHeadStep ==
    /\ pc = "fhead"
    /\ \E kind \in HeadResps :
         LET f == Call524(CurFrame("HeadObject"), kind, srvObj)
         IN  /\ retry' = f
             /\ lastResp' = Response("HeadObject", kind)
             /\ CASE f.status = "returned" /\ ~SizeMatches(f.result, file_size) ->
                      HandleFailure(Exc("RuntimeErrorSizeMismatch", "upload", 0))
                  [] f.status = "returned" /\ SizeMatches(f.result, file_size) ->
                      /\ pc' = "done"
                      /\ outcome' = "returned"
                      /\ endedAt' = pc
                      /\ UNCHANGED <<raised, upload_id, abortCalls>>
                  [] f.status = "raised" -> HandleFailure(f.err)
                  [] OTHER ->
                      UNCHANGED <<pc, outcome, raised, upload_id, endedAt,
                                  abortCalls>>
    /\ rec' = NoRec
    /\ UNCHANGED <<cfgVars, parts, parts_sorted, seen, cntVars, poolVars,
                   completeArg, srvVars>>

\* upload() is called again on the same uploader after the previous call
\* has ended.  The locals of the previous call are gone; the attributes
\* upload() and upload_part never reset (parts_completed, upload_id) are as
\* that call left them.  Of the store, the object under the key remains;
\* the session followed from here on is the one this call will open.
UploadAgain ==
    /\ pc = "done"
    /\ invocations < MaxInvocations
    /\ invocations' = invocations + 1
    /\ pc' = "begin"
    /\ outcome' = "none"
    /\ raised' = NoExc
    /\ endedAt' = "none"
    /\ parts' = <<>>
    /\ parts_sorted' = <<>>
    /\ seen' = {}
    /\ queue' = <<>>
    /\ tasks' = <<>>
    /\ ppc' = [p \in Parts |-> "new"]
    /\ pattempt' = [p \in Parts |-> 0]
    /\ ptmp' = [p \in Parts |-> 0]
    /\ petag' = [p \in Parts |-> 0]
    /\ pbackoff' = [p \in Parts |-> 0]
    /\ perr' = [p \in Parts |-> "none"]
    /\ fut' = [p \in Parts |-> Future("NONE", NoReceipt, NoExc)]
    /\ yielded' = {}
    /\ part507' = {}
    /\ queuedAt507' = {}
    /\ retry' = NoFrame
    /\ rec' = NoRec
    /\ completeArg' = <<>>
    /\ lastResp' = Response("none", "none")
    /\ srvSession' = "none"
    /\ srvParts' = {}
    /\ UNCHANGED <<file_size, part_size, max_retries, max_workers,
                   args_chunk_size, chunk_size, completion_timeout,
                   upload_id, cntVars, abortCalls, srvUploads, srvObj,
                   srvMerges>>

\* ---------------------------------------------------------------- Next
Next ==
    \/ BeginUpload
    \/ CreateStep
    \/ SubmitParts
    \/ StartPart
    \/ \E p \in Parts : UploadPartAttempt(p)
    \/ \E p \in Parts : PartWake(p)
    \/ \E p \in Parts : LoadCounter(p)
    \/ \E p \in Parts : StoreCounter(p)
    \/ \E p \in Parts : Collect(p)
    \/ Drain
    \/ ListStep
    \/ CompleteStep
    \/ ServerMerge
    \/ RecHeadStep
    \/ FinalHeadStep

Spec == Init /\ [][Next]_vars

BigFileSpec == InitBigFile /\ [][Next]_vars

\* Every request is answered, every sleep ends and the pool runs its
\* workers: as long as some step of the upload or of the store can be
\* taken, one is taken.
FairSpec == Init /\ [][Next]_vars /\ WF_vars(Next)

NextReuse ==
    \/ Next
    \/ UploadAgain

ReuseSpec == InitReuse /\ [][NextReuse]_vars

\* The script from its arguments to the submission of the part tasks.
NextPlan ==
    \/ MainPlan
    \/ BeginUpload
    \/ CreateStep
    \/ SubmitParts

PlanSpec == InitPlan /\ [][NextPlan]_vars

\* ====================================================================
\* Properties
\* ====================================================================
InReconciler == rec.status # "idle"

\* The head_object check of the current attempt reported this size.
HeadReported(size) ==
    /\ retry.op = "HeadObject"
    /\ retry.status = "returned"
    /\ retry.result = size

AllRetryable(resps) == \A i \in 1..Len(resps) : resps[i] \in Retryable

StrictlyAscending(s) ==
    \A i \in 1..(Len(s) - 1) : s[i].PartNumber < s[i + 1].PartNumber

\* C1: the parts list passed to every CompleteMultipartUpload call is
\* strictly ascending by PartNumber, whatever the order in which the part
\* uploads completed and were collected.
C1_CompletePartsAscending == StrictlyAscending(completeArg)

\* C1 witness: a second complete call has been made with three receipts
\* that were collected with part 3 first.
C1_Witness ==
    /\ rec.completeCalls = 2
    /\ Len(completeArg) = 3
    /\ Len(parts) = 3
    /\ parts[1].PartNumber = 3

\* C2: when a CompleteMultipartUpload call timed out client-side, the store
\* has done the merge and the HeadObject check that follows reports the
\* expected size, complete_with_timeout_retry has returned: it has not
\* raised and does not go round again.
C2_TimeoutReconciled ==
    (/\ InReconciler
     /\ rec.resp = "ETimeout"
     /\ srvSession = "merged"
     /\ HeadReported(file_size))
    => (rec.status = "returned" /\ pc = "fhead" /\ outcome = "none")

\* C2 witness: the timed-out call's merge happened, the check matched, and
\* attempts were left.
C2_Witness ==
    /\ rec.resp = "ETimeout"
    /\ srvMerges = 1
    /\ srvObj = file_size
    /\ HeadReported(file_size)
    /\ rec.status = "returned"
    /\ rec.attempt < max_retries

\* C3: a part whose UploadPart request was answered 507 is not attempted
\* again (its task has raised, it takes no backoff sleep), upload() raises,
\* and neither ListParts nor CompleteMultipartUpload is issued.
C3_Part507Fatal ==
    /\ \A p \in part507 :
         /\ ppc[p] = "err"
         /\ pbackoff[p] = 0
         /\ fut[p].exception.kind = "RuntimeError507"
    /\ part507 # {} =>
         /\ pc \in {"collect", "drain", "done"}
         /\ pc = "done" => outcome = "raised"
         /\ lastResp.op = "CreateMultipartUpload"
         /\ rec.completeCalls = 0
         /\ completeArg = <<>>

\* C3 witness: a part was answered 507 on a later attempt and upload() has
\* raised.
C3_Witness ==
    /\ pc = "done"
    /\ outcome = "raised"
    /\ raised.kind = "RuntimeError507"
    /\ raised.n = 2
    /\ part507 # {}

\* An UploadPart request has been sent for part p.
Requested(p) ==
    \/ ppc[p] \in {"sleep", "load", "store", "ok"}
    \/ pattempt[p] > 1
    \/ (ppc[p] = "err" /\ fut[p].exception.op = "UploadPart"
        /\ fut[p].exception.n > 0)

\* C4 (as claimed): with more parts than workers, no UploadPart request is
\* sent for a part that was still queued when a 507 response was received.
C4_QueuedNotStartedAfter507 ==
    total_parts > max_workers => \A p \in queuedAt507 : ~Requested(p)

\* C5: upload() returns normally only if the final HeadObject reported the
\* local file size; when the final HeadObject reports another size upload()
\* raises the verification error.
C5_FinalSizeVerified ==
    /\ outcome = "returned" =>
         /\ endedAt = "fhead"
         /\ lastResp = Response("HeadObject", "OK")
         /\ HeadReported(file_size)
    /\ (pc = "done" /\ endedAt = "fhead" /\ retry.status = "returned"
        /\ retry.result # file_size) =>
         /\ outcome = "raised"
         /\ raised.kind = "RuntimeErrorSizeMismatch"

\* C5 witness: the complete call succeeded, the merge left a truncated
\* object, and upload() raised the verification error.
C5_Witness ==
    /\ pc = "done"
    /\ endedAt = "fhead"
    /\ srvMerges = 1
    /\ srvObj # file_size
    /\ raised.kind = "RuntimeErrorSizeMismatch"

\* C6: a call_with_524_retry whose operation failed on every attempt with a
\* 524 or a timeout has invoked it exactly max_retries times and raises the
\* error of the last attempt.
C6_RetryExhausts ==
    (retry.status = "raised" /\ AllRetryable(retry.resps)) =>
        /\ Len(retry.resps) = max_retries
        /\ Len(retry.sleeps) = max_retries - 1
        /\ retry.err = Exc(retry.resps[max_retries], retry.op, max_retries)

\* C6 witness: three attempts, a timeout between two 524s, then the raise.
C6_Witness ==
    /\ retry.status = "raised"
    /\ retry.resps = <<"E524", "ETimeout", "E524">>
    /\ max_retries = 3

All524(resps) == \A i \in 1..Len(resps) : resps[i] = "E524"

\* C7 (as claimed): with max_retries = 3 and every attempt answered 524,
\* there are 3 attempts, sleeps of 2s, 4s and 8s, and the error of the 3rd
\* attempt is raised.
C7_Sleeps248 ==
    (max_retries = 3 /\ retry.status = "raised" /\ All524(retry.resps)) =>
        /\ Len(retry.resps) = 3
        /\ retry.sleeps = <<2, 4, 8>>
        /\ retry.err = Exc("E524", retry.op, 3)

\* C7 (amended): with max_retries = 3 and every attempt answered 524, there
\* are 3 attempts, sleeps of 2s and 4s (none after the 3rd attempt), and the
\* error of the 3rd attempt is raised.
C7_Sleeps24 ==
    (max_retries = 3 /\ retry.status = "raised" /\ All524(retry.resps)) =>
        /\ Len(retry.resps) = 3
        /\ retry.sleeps = <<2, 4>>
        /\ retry.err = Exc("E524", retry.op, 3)

\* C7 witness: list_parts answered 524 three times.
C7_Witness ==
    /\ max_retries = 3
    /\ retry.op = "ListParts"
    /\ retry.status = "raised"
    /\ retry.resps = <<"E524", "E524", "E524">>

\* C8: when the first CompleteMultipartUpload call timed out and the first
\* HeadObject after it reports the expected size, the reconciler has
\* returned, with one CompleteMultipartUpload and one HeadObject issued.
C8_OneCompleteOneHead ==
    (/\ InReconciler
     /\ rec.timeouts = <<CompletionTimeout(file_size)>>
     /\ rec.resp = "ETimeout"
     /\ retry.op = "HeadObject"
     /\ retry.resps = <<"OK">>
     /\ retry.result = file_size)
    => (/\ rec.status = "returned"
        /\ rec.completeCalls = 1
        /\ rec.attempt = 1
        /\ pc = "fhead")

\* C8 witness: that run, with attempts left.
C8_Witness ==
    /\ rec.status = "returned"
    /\ rec.completeCalls = 1
    /\ rec.resp = "ETimeout"
    /\ retry.resps = <<"OK">>
    /\ retry.result = file_size
    /\ max_retries > 1

\* C9: no AbortMultipartUpload is ever issued, and when upload() raises
\* after the session was opened the uploader's upload_id is still the
\* session's id.
C9_NeverAborted ==
    /\ abortCalls = 0
    /\ (outcome = "raised" /\ endedAt # "create") =>
         (upload_id # NoUpload /\ upload_id = srvUploads)

\* C9 witness: finalization was exhausted and the session is left open.
C9_Witness ==
    /\ outcome = "raised"
    /\ endedAt = "chead"
    /\ rec.status = "raised"
    /\ srvSession = "open"
    /\ upload_id = 1

\* C10 (as claimed): a 507 response to any request aborts the upload at
\* once: upload() raises, the part task that got it is over, and the
\* reconciler consumes no further attempt after a 507 to its complete call.
C10_Any507Aborts ==
    /\ lastResp.kind = "E507" => (pc = "done" /\ outcome = "raised")
    /\ \A p \in part507 : ppc[p] = "err"
    /\ rec.last_exc.kind = "E507" =>
         (rec.attempt = rec.last_exc.n /\ rec.completeCalls = rec.last_exc.n)

\* A CompleteMultipartUpload call has been issued, or is the next request.
CompleteIssued == completeArg # <<>> \/ rec.completeCalls > 0
AtReconciler == pc \in {"complete", "chead", "fhead"}

\* C11: CompleteMultipartUpload is issued only after list_parts returned
\* exactly total_parts entries; when list_parts returned another number of
\* entries, upload() has raised the part-count error and no
\* CompleteMultipartUpload call has been made.
C11_CompleteOnlyAfterFullListing ==
    /\ (CompleteIssued \/ AtReconciler) => Cardinality(seen) = total_parts
    /\ (/\ retry.op = "ListParts"
        /\ retry.status = "returned"
        /\ Cardinality(retry.result) # total_parts)
       => (/\ pc = "done"
           /\ outcome = "raised"
           /\ raised = Exc("RuntimeErrorPartCount", "upload", 0)
           /\ ~CompleteIssued
           /\ srvMerges = 0)
    /\ raised.kind = "RuntimeErrorPartCount"
       => (Cardinality(seen) # total_parts /\ ~CompleteIssued)

\* C11 witness: a complete call has been made for a two-part file after
\* list_parts reported both parts.
C11_Witness ==
    /\ CompleteIssued
    /\ total_parts = 2
    /\ Cardinality(seen) = 2
    /\ rec.completeCalls = 1

\* C12: whenever CompleteMultipartUpload is issued, the receipts passed to
\* it are total_parts entries whose part numbers are pairwise distinct and
\* are exactly 1..total_parts, each carrying the ETag the store returned to
\* the successful UploadPart request of that part number.
C12_ReceiptsComplete ==
    \A arg \in (IF CompleteIssued THEN {completeArg} ELSE {})
                \cup (IF pc = "complete" THEN {parts_sorted} ELSE {}) :
            /\ Len(arg) = total_parts
            /\ \A i, j \in 1..Len(arg) :
                   i # j => arg[i].PartNumber # arg[j].PartNumber
            /\ {arg[i].PartNumber : i \in 1..Len(arg)} = 1..total_parts
            /\ \A i \in 1..Len(arg) :
                   /\ arg[i] \in srvParts
                   /\ arg[i].ETag = ETagOf(arg[i].PartNumber)
                   /\ arg[i].ETag = petag[arg[i].PartNumber]

\* C12 witness: a complete call carries three receipts that were collected
\* with part 2 first.
C12_Witness ==
    /\ Len(completeArg) = 3
    /\ rec.completeCalls = 1
    /\ parts[1].PartNumber = 2
    /\ parts_completed = 3

\* __main__ has made its checks; they refused the run, or the uploader has
\* been constructed.
PlanRan == pc # "main"
PlanFailed == PlanRan /\ endedAt = "main"
Planned == PlanRan /\ endedAt # "main"
NoSessionOpened ==
    srvUploads = 0 /\ srvSession = "none" /\ upload_id = NoUpload

\* n = ceil(a / b), stated without a division
IsCeilOf(n, a, b) == (n - 1) * b < a /\ a <= n * b

\* C13: with a requested part size within [5 MiB, 5 GiB] and a file of
\* more than 0 bytes that needs at most 10000 parts of that size, planning
\* yields total_parts = ceil(file_size / part_size), 1 <= total_parts <=
\* 10000; with an empty file, a part size below 5 MiB or above 5 GiB, or
\* more than 10000 parts needed, planning ends in a configuration error and
\* no session is opened.  (Sizes in MiB.)
C13_PlanWithinLimits ==
    (PlanRan /\ args_chunk_size # NoChunk) =>
        LET fs == file_size
            cs == args_chunk_size
            sizeOk == cs >= 5 /\ cs <= 5 * 1024
        IN  /\ (/\ fs > 0
                /\ sizeOk
                /\ fs <= 10000 * cs
                /\ max_retries >= 1
                /\ max_workers >= 1)
               => (/\ Planned
                   /\ part_size = cs
                   /\ IsCeilOf(total_parts, fs, cs)
                   /\ 1 <= total_parts
                   /\ total_parts <= 10000)
            /\ (\/ fs = 0
                \/ cs < 5
                \/ cs > 5 * 1024
                \/ (sizeOk /\ fs > 10000 * cs))
               => (/\ PlanFailed
                   /\ outcome = "raised"
                   /\ raised.kind \in {"ValueErrorEmptyFile",
                                       "ValueErrorChunkTooSmall",
                                       "ValueErrorChunkTooLarge",
                                       "ValueErrorTooManyParts"}
                   /\ NoSessionOpened)

\* C13 witness: a plan of exactly 10000 parts of the smallest size, whose
\* session has been opened.
C13_Witness ==
    /\ Planned
    /\ args_chunk_size = 5
    /\ total_parts = 10000
    /\ srvSession = "open"

\* C14: when no part size is requested, the part size chosen for a file of
\* more than 0 bytes is max(50 MiB, ceil(file_size / 10000)), and the
\* resulting part count never exceeds 10000: the run is never refused for
\* its part count, and a plan made has at most 10000 parts.  (Sizes in MiB.)
C14_DefaultChunkSize ==
    (PlanRan /\ args_chunk_size = NoChunk /\ file_size > 0) =>
        /\ chunk_size >= 50
        /\ file_size <= 10000 * chunk_size
        /\ chunk_size > 50 => IsCeilOf(chunk_size, file_size, 10000)
        /\ raised.kind # "ValueErrorTooManyParts"
        /\ Planned => (part_size = chunk_size /\ total_parts <= 10000)

\* C14 witness: a file too large for 10000 parts of 50 MiB has been planned
\* with a larger part size.
C14_Witness ==
    /\ Planned
    /\ args_chunk_size = NoChunk
    /\ file_size > 10000 * 50
    /\ part_size > 50
    /\ pc = "create"

\* The byte range of a part task ends where the next one begins.
RangeEnd(task) == task.offset + task.bytes_to_read

\* C15: the part tasks upload() dispatches tile the file: task k is part k
\* at offset (k-1) * part_size with length min(part_size, file_size -
\* offset); the first range begins at 0, each range ends where the next
\* begins and the last ends at file_size (so the ranges are pairwise
\* disjoint and their lengths sum to file_size); every length is within
\* [1, part_size] and only the last may be shorter than part_size.  120 MiB
\* at 50 MiB parts gives 3 parts, the last of 20 MiB.
C15_TasksTileFile ==
    tasks # <<>> =>
        LET n == Len(tasks)
        IN  /\ IsCeilOf(n, file_size, part_size)
            /\ tasks[1].offset = 0
            /\ RangeEnd(tasks[n]) = file_size
            /\ \A k \in 1..n :
                   /\ tasks[k].part_number = k
                   /\ tasks[k].offset = (k - 1) * part_size
                   /\ tasks[k].bytes_to_read >= 1
                   /\ tasks[k].bytes_to_read <= part_size
                   /\ tasks[k].bytes_to_read <= file_size - tasks[k].offset
                   /\ \/ tasks[k].bytes_to_read = part_size
                      \/ tasks[k].bytes_to_read = file_size - tasks[k].offset
                   /\ k < n => /\ tasks[k].bytes_to_read = part_size
                               /\ RangeEnd(tasks[k]) = tasks[k + 1].offset
            /\ (file_size = 120 /\ part_size = 50)
               => (n = 3 /\ tasks[3].bytes_to_read = 20)

\* C15 witness: the three tasks of a 120 MiB file at 50 MiB parts have been
\* submitted.
C15_Witness ==
    /\ pc = "collect"
    /\ file_size = 120
    /\ part_size = 50
    /\ Len(tasks) = 3
    /\ tasks[3] = [part_number |-> 3, offset |-> 100, bytes_to_read |-> 20]

Sleeping == {p \in Parts : ppc[p] = "sleep"}

\* C16: at every moment at most max_workers part uploads are in flight (a
\* worker is executing upload_part, its backoff sleeps included); and while
\* a worker sleeps in backoff, a queued part is taken as soon as another
\* worker is free.
C16_PoolBounded ==
    /\ Cardinality(InFlight) <= max_workers
    /\ (/\ Sleeping # {}
        /\ queue # <<>>
        /\ Cardinality(InFlight) < max_workers)
       => ENABLED StartPart

\* C16 witness: with two workers, part 1 sleeps in backoff while the other
\* worker, having finished part 2, has the request of part 3 in flight.
C16_Witness ==
    /\ max_workers = 2
    /\ ppc[1] = "sleep"
    /\ total_parts = 3
    /\ ppc[2] = "ok"
    /\ ppc[3] = "req"

\* Parts whose upload_part call has returned its receipt, and parts whose
\* UploadPart request succeeded but whose increment is still to be done.
Succeeded == {p \in Parts : ppc[p] = "ok"}
AwaitingIncrement == {p \in Parts : ppc[p] \in {"load", "store"}}

\* C17: the progress counter is incremented only while holding the
\* progress lock, once per successful part upload and never for a failed
\* attempt, and no increment is lost: it equals the number of parts
\* uploaded successfully so far (every part the store accepted except those
\* whose worker has not yet done its increment), and total_parts once all
\* parts have succeeded.
C17_CounterExact ==
    /\ parts_completed = Cardinality(Succeeded)
    /\ parts_completed + Cardinality(AwaitingIncrement) = Cardinality(srvParts)
    /\ \A p \in Parts : ppc[p] = "store" => progress_lock = p
    /\ progress_lock # 0 => ppc[progress_lock] = "store"
    /\ Succeeded = Parts => parts_completed = total_parts

\* C17 witness: two workers have counted parts 1 and 2 while an attempt of
\* part 3 has failed and is backing off.
C17_Witness ==
    /\ max_workers = 2
    /\ total_parts = 3
    /\ parts_completed = 2
    /\ ppc[1] = "ok"
    /\ ppc[2] = "ok"
    /\ ppc[3] = "sleep"

\* C18: the initial timeout handed to complete_with_timeout_retry is
\* max(60, 5 * ceil(file_size / 2^30)) seconds: 60 for a file of up to
\* 12 GiB, and 5 per started GiB above that.  (Sizes in MiB.)
C18_InitialTimeout ==
    /\ pc # "begin" =>
          /\ file_size <= 12 * 1024 => completion_timeout = 60
          /\ \E k \in 1..(file_size \div 1024 + 1) :
                 /\ IsCeilOf(k, file_size, 1024)
                 /\ completion_timeout = Max2(60, 5 * k)
                 /\ file_size > 12 * 1024 => completion_timeout = 5 * k
    /\ InReconciler =>
          /\ rec.attempt = 1 => rec.timeout = completion_timeout
          /\ rec.timeouts # <<>> => rec.timeouts[1] = completion_timeout

\* C18 witness: the first complete call for a file of 13 GiB and 1 MiB has
\* been made with a timeout of 70 seconds.
C18_Witness ==
    /\ file_size = 13 * 1024 + 1
    /\ rec.completeCalls = 1
    /\ rec.timeouts = <<70>>

\* The timeout of the latest complete_multipart_upload call.
CurrentTimeout == rec.timeouts[Len(rec.timeouts)]

\* C19 (as stated): after a complete call that failed with a client-side
\* read/connect timeout, the head_object check follows with no sleep.
C19_TimeoutNoSleep ==
    (InReconciler /\ rec.resp = "ETimeout") => rec.slept = 0

\* C19 (amended): after a complete call that failed with a client-side
\* read/connect timeout, complete_with_timeout_retry sleeps for the current
\* timeout before the head_object check.
C19_TimeoutSleeps ==
    (InReconciler /\ rec.resp = "ETimeout") =>
        /\ rec.slept = CurrentTimeout
        /\ rec.slept >= 60

\* C19 witness: the second complete call timed out, and the head_object
\* check that followed the sleep of the doubled timeout found the object.
C19_Witness ==
    /\ rec.resp = "ETimeout"
    /\ rec.completeCalls = 2
    /\ rec.slept = 2 * completion_timeout
    /\ rec.head = "match"

\* C20: after a complete call answered NoSuchUpload the head_object check
\* follows without a sleep; after a call that failed with any other server
\* or network error, complete_with_timeout_retry sleeps for the current
\* timeout before the check.
C20_SleepUnlessNoSuchUpload ==
    InReconciler =>
        /\ rec.resp = "ENoSuchUpload" => rec.slept = 0
        /\ rec.resp \in CompleteResps \ {"OK", "ENoSuchUpload"}
           => (rec.slept = CurrentTimeout /\ rec.slept >= 60)

\* C20 witness: a complete call was answered NoSuchUpload (an earlier call
\* had been served), and the head_object check, made without a sleep, found
\* the object.
C20_Witness ==
    /\ rec.resp = "ENoSuchUpload"
    /\ rec.slept = 0
    /\ srvSession = "merged"
    /\ rec.head = "match"

\* A head_object check has been made since the latest complete call: at
\* least one HeadObject request was sent and its call_with_524_retry ended.
HeadCheckedSinceComplete ==
    /\ rec.head \in {"mismatch", "error"}
    /\ retry.op = "HeadObject"
    /\ retry.status \in {"returned", "raised"}
    /\ Len(retry.resps) >= 1
    /\ lastResp.op = "HeadObject"

\* C21: complete_with_timeout_retry never gives up or goes round again
\* without reconciling first: after every failed complete call, that of
\* the last attempt included, a head_object check is made before the next
\* complete call and before the raise.
C21_HeadCheckBeforeRetryOrRaise ==
    /\ (InReconciler /\ rec.status = "raised") =>
           (HeadCheckedSinceComplete /\ endedAt = "chead")
    /\ (pc = "complete" /\ rec.completeCalls > 0) => HeadCheckedSinceComplete
    /\ (InReconciler /\ rec.resp \notin {"none", "OK"}) =>
           (pc = "chead" \/ rec.head # "none")
    /\ (outcome = "raised" /\ raised.op = "CompleteMultipartUpload") =>
           endedAt = "chead"

\* C21 witness: the second and last complete call failed, the head_object
\* check that followed reported another size, and the call raised.
C21_Witness ==
    /\ max_retries = 2
    /\ rec.status = "raised"
    /\ rec.completeCalls = 2
    /\ rec.head = "mismatch"
    /\ lastResp = Response("HeadObject", "OK")

\* C22: complete_with_timeout_retry makes at most max_retries complete
\* calls; the k-th is made with initial_timeout * 2^(k-1) as read and
\* connect timeout, so the timeout doubles once per unresolved attempt and
\* never decreases; and once a complete call has returned success or a
\* head_object check has reported the expected size, the function has
\* returned and no further complete call is made.
C22_BoundedDoublingCompletes ==
    /\ InReconciler =>
          /\ rec.completeCalls <= max_retries
          /\ Len(rec.timeouts) = rec.completeCalls
          /\ \A k \in 1..Len(rec.timeouts) :
                 /\ rec.timeouts[k] = completion_timeout * Pow2(k - 1)
                 /\ k > 1 => rec.timeouts[k] = 2 * rec.timeouts[k - 1]
          /\ rec.status = "running" =>
                 /\ rec.timeout = completion_timeout * Pow2(rec.attempt - 1)
                 /\ rec.completeCalls =
                        IF pc = "complete" THEN rec.attempt - 1 ELSE rec.attempt
          /\ (rec.resp = "OK" \/ rec.head = "match") =>
                 (rec.status = "returned" /\ pc = "fhead")
    /\ endedAt = "fhead" => pc = "done"
    /\ pc \in {"complete", "chead"} => rec.status = "running"

\* C22 witness: the third and last complete call has been made with four
\* times the initial timeout.
C22_Witness ==
    /\ max_retries = 3
    /\ rec.completeCalls = 3
    /\ rec.timeouts = <<60, 120, 240>>

\* C23: when all max_retries attempts stay unresolved, the error
\* complete_with_timeout_retry raises is that of its last complete call; a
\* head_object check that raised leaves the attempt unresolved like a size
\* mismatch, and its error is never the one upload() ends with.
C23_LastCompleteErrorSurfaced ==
    /\ (InReconciler /\ rec.status = "raised") =>
          /\ rec.completeCalls = max_retries
          /\ rec.resp # "OK"
          /\ raised = Exc(rec.resp, "CompleteMultipartUpload", max_retries)
          /\ outcome = "raised"
    /\ (InReconciler /\ rec.head = "error") =>
          /\ retry.status = "raised"
          /\ rec.status # "returned"
          /\ rec.status = "running" =>
                 (pc = "complete" /\ outcome = "none"
                  /\ rec.attempt = rec.completeCalls + 1)
    /\ endedAt = "chead" => raised.op = "CompleteMultipartUpload"

\* C23 witness: both attempts were unresolved, the last head_object check
\* failing with an error of its own; the 524 of the second complete call
\* is raised.
C23_Witness ==
    /\ max_retries = 2
    /\ rec.status = "raised"
    /\ rec.head = "error"
    /\ lastResp = Response("HeadObject", "EOther")
    /\ raised = Exc("E524", "CompleteMultipartUpload", 2)

\* Parts whose worker sleeps before a further attempt.
Retrying == {p \in DOMAIN ppc : ppc[p] = "sleep"}

\* C24 (as stated): a part upload attempt is retried only after a client
\* timeout or a 524 response.
C24_OnlyTimeoutClassRetried ==
    \A p \in Retrying : perr[p] \in Retryable

\* C24 (amended): a part upload attempt is retried after every botocore or
\* client error except a 507 response, as long as attempts are left: the
\* error before a retry is a timeout, a 524 or any other error that is not
\* a 507; the insufficient-storage error is raised only for a 507
\* response; and any other error is raised only by the last attempt.
C24_AllBut507Retried ==
    /\ \A p \in Retrying :
          /\ perr[p] \in CallResps \ {"OK", "E507"}
          /\ pattempt[p] < max_retries
          /\ pbackoff[p] = Pow2(pattempt[p])
    /\ \A p \in DOMAIN fut :
          /\ fut[p].exception.kind = "RuntimeError507" => p \in part507
          /\ fut[p].exception.kind \in CallResps =>
                 (fut[p].exception.kind # "E507"
                  /\ fut[p].exception.n = max_retries)

\* C24 witness: the first attempt of part 1 failed with an error that is
\* neither a timeout nor a 524, and the worker sleeps 2 s before the next.
C24_Witness ==
    /\ ppc[1] = "sleep"
    /\ perr[1] = "EOther"
    /\ pattempt[1] = 1
    /\ pbackoff[1] = 2

\* The responses before the latest one of the current call_with_524_retry.
EarlierResps == SubSeq(retry.resps, 1, Len(retry.resps) - 1)
LatestResp == retry.resps[Len(retry.resps)]

\* C25: a call_with_524_retry whose operation failed with 524 or a timeout
\* on its first j attempts (j < max_retries) and then succeeded returns
\* after exactly j+1 invocations, having slept 2^1, ..., 2^j seconds, and no
\* error of that call reaches the caller; an error that is neither a 524
\* nor a timeout is raised on its first occurrence, with no sleep after it
\* and no further invocation; a 524 or a timeout is raised only by the
\* last attempt.
C25_TransientRecovered ==
    retry.status \in {"running", "returned", "raised"} =>
        LET n == Len(retry.resps)
        IN  /\ n <= max_retries
            /\ AllRetryable(EarlierResps)
            /\ retry.status = "running" =>
                   /\ AllRetryable(retry.resps)
                   /\ retry.attempt = n + 1
                   /\ Len(retry.sleeps) = n
            /\ retry.status = "returned" =>
                   /\ LatestResp = "OK"
                   /\ retry.attempt = n
                   /\ Len(retry.sleeps) = n - 1
                   /\ retry.err = NoExc
                   /\ outcome = "raised" => raised.op # retry.op
            /\ retry.status = "raised" =>
                   /\ LatestResp # "OK"
                   /\ retry.err = Exc(LatestResp, retry.op, n)
                   /\ Len(retry.sleeps) = n - 1
                   /\ LatestResp \in Retryable => n = max_retries
            /\ \A i \in 1..Len(retry.sleeps) : retry.sleeps[i] = Pow2(i)

\* C25 witness: CreateMultipartUpload was answered 524, then timed out,
\* then succeeded; the driver goes on after sleeps of 2 s and 4 s.
C25_Witness ==
    /\ retry.op = "CreateMultipartUpload"
    /\ retry.status = "returned"
    /\ retry.resps = <<"E524", "ETimeout", "OK">>
    /\ retry.sleeps = <<2, 4>>
    /\ pc = "submit"
    /\ outcome = "none"

\* The driver has reached list_parts in this upload() call.
ListReached ==
    \/ pc = "list"
    \/ AtReconciler
    \/ endedAt \in {"list", "chead", "fhead"}

\* C26: list_parts is reached only after every submitted part task has
\* settled, and only if every one succeeded: from the first ListParts round
\* on no part upload is queued or running, every future has finished with a
\* receipt and has been collected; and an UploadPart request is sent only
\* after CreateMultipartUpload has succeeded.
C26_ListAfterAllPartsSettled ==
    /\ ListReached =>
          /\ queue = <<>>
          /\ InFlight = {}
          /\ yielded = Parts
          /\ Len(parts) = total_parts
          /\ \A p \in Parts :
                 /\ ppc[p] = "ok"
                 /\ fut[p].state = "FINISHED"
                 /\ fut[p].exception = NoExc
    /\ lastResp.op = "ListParts" => ListReached
    /\ (srvParts # {} \/ \E p \in DOMAIN ppc : Requested(p)) =>
          /\ srvUploads >= 1
          /\ upload_id # NoUpload
          /\ pc \notin {"begin", "create", "submit"}

\* C26 witness: a ListParts round has been answered 524 and is retried
\* after all three parts were uploaded and collected.
C26_Witness ==
    /\ pc = "list"
    /\ total_parts = 3
    /\ lastResp = Response("ListParts", "E524")
    /\ parts_completed = 3

\* Part tasks that ended with an exception, and those among them whose
\* last attempt re-raised the error of its UploadPart request.
FailedParts == {p \in DOMAIN fut : fut[p].exception # NoExc}
ExhaustedParts == {p \in FailedParts : fut[p].exception.kind \in CallResps}

\* C27 (as stated): when a part has failed on all max_retries attempts,
\* upload() raises the last error of that part, whichever part it is and
\* in whatever order the futures complete, and no complete call is made.
C27_ExhaustedPartErrorRaised ==
    /\ \A p \in DOMAIN pattempt : pattempt[p] <= max_retries
    /\ \A p \in ExhaustedParts :
          /\ ~CompleteIssued
          /\ pc = "done" => (outcome = "raised" /\ raised = fut[p].exception)

\* C27 (amended): at most max_retries UploadPart requests are sent for a
\* part number; when a part has failed on all of them, upload() does not
\* reach list_parts or a complete call and ends by raising the error of the
\* failed part task that was collected first: the last error of that
\* part when no other part task failed.
C27_ExhaustedPartFatal ==
    /\ \A p \in DOMAIN pattempt : pattempt[p] <= max_retries
    /\ \A p \in ExhaustedParts :
          /\ fut[p].exception.n = max_retries
          /\ fut[p].exception.op = "UploadPart"
          /\ ppc[p] = "err"
          /\ ~CompleteIssued
          /\ ~ListReached
          /\ outcome # "returned"
          /\ pc \in {"collect", "drain", "done"}
          /\ p \in yielded => pc # "collect"
          /\ pc \in {"drain", "done"} =>
                 \E q \in FailedParts \cap yielded : raised = fut[q].exception
          /\ pc = "done" =>
                 /\ outcome = "raised"
                 /\ endedAt = "drain"
                 /\ FailedParts = {p} => raised = fut[p].exception

\* C27 witness: parts 1 and 2 both failed on all attempts with different
\* errors, and upload() has raised that of part 2.
C27_Witness ==
    /\ pc = "done"
    /\ ExhaustedParts = {1, 2}
    /\ fut[1].exception.kind = "E524"
    /\ fut[2].exception.kind = "EOther"
    /\ raised = fut[2].exception
    /\ max_retries = 2

\* C28 (as claimed): throughout any upload() call, also a second one on
\* the same uploader, the count of completed parts is at most total_parts
\* and the reported progress at most 100%.
C28_ProgressWithinInvocation ==
    /\ parts_completed <= total_parts
    /\ progress <= 100

\* The requests of the call_with_524_retry in progress.
RequestsOf(op) == IF retry.op = op THEN Len(retry.resps) ELSE 0

\* C29: when every request is answered and the workers are scheduled,
\* upload() terminates: it returns or raises, and up to then it has made
\* at most max_retries CreateMultipartUpload calls, at most max_retries
\* UploadPart calls for each of its total_parts parts, at most max_retries
\* ListParts rounds and at most max_retries CompleteMultipartUpload calls.
C29_Terminates ==
    /\ [](/\ RequestsOf("CreateMultipartUpload") <= max_retries
          /\ RequestsOf("ListParts") <= max_retries
          /\ \A p \in DOMAIN pattempt : pattempt[p] <= max_retries
          /\ rec.completeCalls <= max_retries
          /\ srvUploads <= 1)
    /\ <>(pc = "done" /\ outcome \in {"returned", "raised"})

\* C29 witness: upload() has ended, raising once the reconciler had used
\* every one of its max_retries = 3 complete calls.
C29_Witness ==
    /\ pc = "done"
    /\ outcome = "raised"
    /\ max_retries = 3
    /\ rec.status = "raised"
    /\ rec.completeCalls = max_retries

\* C30: whenever complete_with_timeout_retry has returned, the store has
\* finalized this upload session: one CompleteMultipartUpload of the
\* session has taken effect, and no more than one.
C30_CompletionEffectiveOnce ==
    rec.status = "returned" => srvSession = "merged" /\ srvMerges = 1
====
